---- MODULE Spec2Model ----
(***************************************************************************)
(* Pitch-timing and at-bat resolution engine of the timing batting game   *)
(* (src/src/screens/ScreenBaseballTiming.tsx with the pure helpers of     *)
(* game/utils and the thresholds of game/constants).                      *)
(*                                                                         *)
(* Numbers.  progress is a fraction in [0,1]; it is kept in fixed point   *)
(* with One = 10000 steps, so CONTACT_PROGRESS 0.86 is 8600 and the        *)
(* thresholds 0.010/0.020/0.035/0.055 are 100/200/350/550.  Times are in   *)
(* hundredths of a millisecond, so that every progress value used is an   *)
(* exact quotient elapsed / plateTime.  The cosmetic fields of a HitResult (timingDelta, *)
(* exitVelo, launchDeg, distance) are not part of the state.               *)
(*                                                                         *)
(* React.  All setState calls of one handler are batched into one render; *)
(* the passive effects whose dependencies changed in that render run      *)
(* next, before any other event is handled (action FlushEffects).  The    *)
(* keyboard and button handlers are re-bound after each render, so they   *)
(* read the state of the latest render.                                    *)
(***************************************************************************)
EXTENDS Integers, FiniteSets, Sequences, TLC

(* ------------------------------ bounds -------------------------------- *)
\* startPitch is not taken once pitches has reached this count
MaxPitchCount == 9
\* a foul verdict is not taken once maxPitches has reached this limit
MaxPitchLimit == 6
\* the specification SpecConfig follows the game up to this number of pitches
ConfigPitchCount == 1
\* the specification SpecLive follows the game up to this number of pitches
LivePitchCount == 2
\* the specification SpecBle follows the game up to this number of pitches
BlePitchCount == 1
\* no notification arrives after this time (ms) on the clock of the sensor hook
MaxBleNow == 800

(* ---------------------- constants of the program ---------------------- *)
One == 10000
CONTACT_PROGRESS == 8600
PERFECT == 100
GOOD == 200
OKAY == 350
FOUL == 550
InitialMph == 85
InitialPitchGapMs == 1200
InitialMaxPitches == 5

\* useBleSwing(doSwing, {debounceMs: 250})
debounceMs == 250

\* swingAtRef.current === null
NoSwing == -1

PitchTypes == {"straight", "slider", "curve", "sinker"}
\* values of the velocity slider (min 70, max 100) used by the model
MphValues == {85, 100}
\* values of the gap slider (min 600, max 2400, step 100) used by the model
GapValues == {1200, 600}

NoRunners == [on1 |-> FALSE, on2 |-> FALSE, on3 |-> FALSE]
RunnersSet == [on1 : BOOLEAN, on2 : BOOLEAN, on3 : BOOLEAN]
\* a HitResult, or null (kind "none"); reason is "-" unless kind is "strike"
Res(kind, reason) == [kind |-> kind, reason |-> reason]
NoResult == Res("none", "-")

(* ------------------------------ helpers ------------------------------- *)
Abs(x) == IF x < 0 THEN -x ELSE x
Min(a, b) == IF a < b THEN a ELSE b
Max(a, b) == IF a > b THEN a ELSE b

clamp(v, lo, hi) == Max(lo, Min(hi, v))

\* lerp(a, b, t) with the interpolation factor t given as the fraction tn/td
lerp(a, b, tn, td) == a + ((b - a) * tn) \div td

\* mutant of plateTimeMsFromMph: the interpolation factor is not clamped
plateTimeMsFromMph_NoClamp(m) == lerp(2000, 400, m - 20, 100 - 20)

\* plate time in ms; (mph - 20) / (100 - 20) is clamped to [0,1]
plateTimeMsFromMph(m) == lerp(2000, 400, clamp(m - 20, 0, 100 - 20), 100 - 20)

(* ------------------------------- state -------------------------------- *)
VARIABLES
    mph, pitchGapMs, autoPitch, pitchType,      \* useState: configuration
    inPlay, progress, result,                   \* useState: pitch in flight
    strikes, outs, runs, pitches, maxPitches,   \* useState: session counters
    gameOver, runners,
    swingAtRef,    \* progress at the last swing of the flight, or NoSwing
    rafRef,        \* id of the last requested animation frame, 0 for null
    rafQueue,      \* the browser's pending frame callbacks: step closures
    elapsed,       \* performance.now() - startTsRef.current, in 1/100 ms
    autoTimer,     \* ids of the pending setTimeout(startPitch, pitchGapMs) of the effect
    pending,       \* passive effects whose dependencies changed in the last render
    event,         \* the engine's handler that ran last: startPitch, autoPitch (startPitch
                   \* from the timer), doSwing, step or resetAll (observation only; the
                   \* effects and the configuration setters leave it as it is)
    probe,         \* the last call of a pure function made by the specification Pure:
                   \* its name, its arguments and what it returned
    ble            \* useBleSwing: the listener registered by connect (with the doSwing
                   \* closure it holds), lastSwingAtRef, the clock at the last
                   \* notification (ms) and the times onSwing was invoked at

config == <<mph, pitchGapMs, autoPitch, pitchType>>
session == <<strikes, outs, runs, runners, maxPitches, result>>
flight == <<inPlay, progress, swingAtRef, rafRef, rafQueue, elapsed>>
engine == <<config, session, flight, pitches, gameOver, autoTimer, pending, event>>
vars == <<engine, probe, ble>>

\* the counters settleResult works on, as one record
Sess == [strikes |-> strikes, outs |-> outs, runs |-> runs, runners |-> runners,
         maxPitches |-> maxPitches, result |-> result]

SetSess(s) ==
    /\ strikes' = s.strikes
    /\ outs' = s.outs
    /\ runs' = s.runs
    /\ runners' = s.runners
    /\ maxPitches' = s.maxPitches
    /\ result' = s.result

(* ---------------------------- advanceBases ---------------------------- *)
\* [state.on1, state.on2, state.on3] with the source's indices 0..2
arrOf(state) == [i \in 0..2 |-> IF i = 0 THEN state.on1 ELSE IF i = 1 THEN state.on2 ELSE state.on3]

\* mutant of advanceLoop: "j > 3" for "j >= 3", so a runner arriving at index 3 is
\* written past the third base and not counted
RECURSIVE advanceLoop_OffByOne(_, _, _, _)
advanceLoop_OffByOne(arr, n, i, acc) ==
    IF i < 0 THEN acc
    ELSE IF ~arr[i] THEN advanceLoop_OffByOne(arr, n, i - 1, acc)
    ELSE LET j == i + n IN
         IF j > 3
         THEN advanceLoop_OffByOne(arr, n, i - 1, [acc EXCEPT !.scored = @ + 1])
         ELSE IF j < 3
         THEN advanceLoop_OffByOne(arr, n, i - 1, [acc EXCEPT !.nextArr[j] = TRUE])
         ELSE advanceLoop_OffByOne(arr, n, i - 1, acc)

\* the loop "for (let i = 2; i >= 0; i--)" run from index i down to 0
RECURSIVE advanceLoop(_, _, _, _)
advanceLoop(arr, n, i, acc) ==
    IF i < 0 THEN acc
    ELSE IF ~arr[i] THEN advanceLoop(arr, n, i - 1, acc)
    ELSE LET j == i + n IN
         IF j >= 3
         THEN advanceLoop(arr, n, i - 1, [acc EXCEPT !.scored = @ + 1])
         ELSE advanceLoop(arr, n, i - 1, [acc EXCEPT !.nextArr[j] = TRUE])

\* mutant of advanceBases: the runners are moved one base less than the batter
\* ("i + n - 1" for "i + n")
advanceBases_ShortAdvance(state, n) ==
    LET arr == arrOf(state) IN
    IF n >= 4
    THEN [next |-> NoRunners,
          scored |-> Cardinality({i \in 0..2 : arr[i]}) + 1]
    ELSE LET moved == advanceLoop(arr, n - 1, 2, [nextArr |-> [i \in 0..2 |-> FALSE], scored |-> 0])
             fin == [moved EXCEPT !.nextArr[n - 1] = TRUE]
         IN [next |-> [on1 |-> fin.nextArr[0], on2 |-> fin.nextArr[1], on3 |-> fin.nextArr[2]],
             scored |-> fin.scored]

advanceBases(state, n) ==
    LET arr == arrOf(state) IN
    IF n >= 4
    THEN [next |-> NoRunners,
          scored |-> Cardinality({i \in 0..2 : arr[i]}) + 1]
    ELSE LET moved == advanceLoop(arr, n, 2, [nextArr |-> [i \in 0..2 |-> FALSE], scored |-> 0])
             batterIndex == n - 1
             fin == IF batterIndex >= 3
                    THEN [moved EXCEPT !.scored = @ + 1]
                    ELSE [moved EXCEPT !.nextArr[batterIndex] = TRUE]
         IN [next |-> [on1 |-> fin.nextArr[0], on2 |-> fin.nextArr[1], on3 |-> fin.nextArr[2]],
             scored |-> fin.scored]

(* ---------------------------- settleResult ---------------------------- *)
\* mutant of settleStrike: "ns > 3" for "ns >= 3"
settleStrike_Gt(s) ==
    LET ns == s.strikes + 1 IN
    IF ns > 3
    THEN [s EXCEPT !.strikes = 0, !.outs = @ + 1]
    ELSE [s EXCEPT !.strikes = ns]

\* r.kind === "strike": setStrikes(s => ...) with the nested setOuts(o => o + 1)
settleStrike(s) ==
    LET ns == s.strikes + 1 IN
    IF ns >= 3
    THEN [s EXCEPT !.strikes = 0, !.outs = @ + 1]
    ELSE [s EXCEPT !.strikes = ns]

\* mutant of settleFoul: the foul counts as a strike whatever the count
settleFoul_Always(s) ==
    [s EXCEPT !.strikes = @ + 1,
              !.maxPitches = @ + 1]

\* r.kind === "foul"
settleFoul(s) ==
    [s EXCEPT !.strikes = IF @ < 2 THEN @ + 1 ELSE 2,
              !.maxPitches = @ + 1]

\* mutant of settleHomerun: the batter counts 1, as on any other hit
settleHomerun_One(s, rn) ==
    LET runnersNow == (IF rn.on1 THEN 1 ELSE 0) + (IF rn.on2 THEN 1 ELSE 0)
                      + (IF rn.on3 THEN 1 ELSE 0)
    IN [s EXCEPT !.runs = @ + 1 + runnersNow, !.runners = NoRunners, !.strikes = 0]

\* r.kind === "homerun"; rn is the runners value of the closure
settleHomerun(s, rn) ==
    LET runnersNow == (IF rn.on1 THEN 1 ELSE 0) + (IF rn.on2 THEN 1 ELSE 0)
                      + (IF rn.on3 THEN 1 ELSE 0)
    IN [s EXCEPT !.runs = @ + 5 + runnersNow, !.runners = NoRunners, !.strikes = 0]

\* mutant of settleHit: the runs of the runners who come home are not added
settleHit_NoScored(s, kind) ==
    LET bases == IF kind = "single" THEN 1 ELSE IF kind = "double" THEN 2 ELSE 3
        adv == advanceBases(s.runners, bases)
    IN [s EXCEPT !.runs = @ + 1, !.runners = adv.next, !.strikes = 0]

\* single / double / triple
settleHit(s, kind) ==
    LET bases == IF kind = "single" THEN 1 ELSE IF kind = "double" THEN 2 ELSE 3
        adv == advanceBases(s.runners, bases)
    IN [s EXCEPT !.runs = (@ + 1) + adv.scored, !.runners = adv.next, !.strikes = 0]

settleResult(r, s, rn) ==
    LET s1 == [s EXCEPT !.result = r] IN
    IF r.kind = "strike" THEN settleStrike(s1)
    ELSE IF r.kind = "foul" THEN settleFoul(s1)
    ELSE IF r.kind = "homerun" THEN settleHomerun(s1, rn)
    ELSE settleHit(s1, r.kind)

\* no pure function called yet
NoCall == [fn |-> "none", args |-> <<>>, ret |-> <<>>]

(* ------------------------------ verdicts ------------------------------ *)
\* mutant of swingVerdict: "delta <= OKAY * 0.6" for "delta < OKAY * 0.6"
swingVerdict_TieLe(t) ==
    LET delta == Abs(t - CONTACT_PROGRESS) IN
    IF delta <= PERFECT THEN "homerun"
    ELSE IF delta <= GOOD THEN "double"
    ELSE IF delta <= OKAY THEN (IF delta * 10 <= OKAY * 6 THEN "double" ELSE "single")
    ELSE IF delta <= FOUL THEN "foul"
    ELSE "none"

\* mutant of swingVerdict: the foul band has no outer limit
swingVerdict_NoFoulLimit(t) ==
    LET delta == Abs(t - CONTACT_PROGRESS) IN
    IF delta <= PERFECT THEN "homerun"
    ELSE IF delta <= GOOD THEN "double"
    ELSE IF delta <= OKAY THEN (IF delta * 10 < OKAY * 6 THEN "double" ELSE "single")
    ELSE "foul"

\* mutant of swingVerdict: the inner half of the OKAY band is called a triple
swingVerdict_Triple(t) ==
    LET delta == Abs(t - CONTACT_PROGRESS) IN
    IF delta <= PERFECT THEN "homerun"
    ELSE IF delta <= GOOD THEN "double"
    ELSE IF delta <= OKAY THEN (IF delta * 10 < OKAY * 6 THEN "triple" ELSE "single")
    ELSE IF delta <= FOUL THEN "foul"
    ELSE "none"

\* the ladder of doSwing on t = progress; "none" is the empty else branch
swingVerdict(t) ==
    LET delta == Abs(t - CONTACT_PROGRESS) IN
    IF delta <= PERFECT THEN "homerun"
    ELSE IF delta <= GOOD THEN "double"
    ELSE IF delta <= OKAY THEN (IF delta * 10 < OKAY * 6 THEN "double" ELSE "single")
    ELSE IF delta <= FOUL THEN "foul"
    ELSE "none"

\* mutant of stepVerdict: the test "d > FOUL" is dropped, so a swing that made contact
\* is called a strike when the flight ends
stepVerdict_NoContactTest(sw) ==
    IF sw = NoSwing \/ sw = 0
    THEN Res("strike", "miss")
    ELSE Res("strike", IF sw < CONTACT_PROGRESS THEN "early" ELSE "late")

\* the branch of step taken at t = 1 on sw = swingAtRef.current;
\* !swingAtRef.current is true of null and of 0
stepVerdict(sw) ==
    IF sw = NoSwing \/ sw = 0
    THEN Res("strike", "miss")
    ELSE LET d == Abs(sw - CONTACT_PROGRESS) IN
         IF d > FOUL
         THEN Res("strike", IF sw < CONTACT_PROGRESS THEN "early" ELSE "late")
         ELSE NoResult

(* ------------------------------- effects ------------------------------ *)
\* the dependency lists of the passive effects; startPitch is a new function
\* when inPlay or plateTime changed
depsOuts == <<outs>>
depsPitches == <<pitches>>
depsAuto == <<autoPitch, gameOver, inPlay, pitchGapMs, plateTimeMsFromMph(mph)>>

\* the effects that run after the render this step commits
ChangedEffects ==
    {e \in {"outs", "pitches", "auto"} :
        \/ e = "outs" /\ depsOuts' # depsOuts
        \/ e = "pitches" /\ depsPitches' # depsPitches
        \/ e = "auto" /\ depsAuto' # depsAuto}

\* mutant of inningEffect: setOuts(0) is missing
inningEffect_KeepOuts(s) ==
    IF s.outs >= 3
    THEN [s EXCEPT !.strikes = 0, !.runners = NoRunners]
    ELSE s

\* mutant of inningEffect: the runs are cleared with the bases
inningEffect_ClearRuns(s) ==
    IF s.outs >= 3
    THEN [s EXCEPT !.outs = 0, !.strikes = 0, !.runners = NoRunners, !.runs = 0]
    ELSE s

\* mutant of inningEffect: "outs > 3" for "outs >= 3"
inningEffect_Gt(s) ==
    IF s.outs > 3
    THEN [s EXCEPT !.outs = 0, !.strikes = 0, !.runners = NoRunners]
    ELSE s

\* useEffect(..., [outs])
inningEffect(s) ==
    IF s.outs >= 3
    THEN [s EXCEPT !.outs = 0, !.strikes = 0, !.runners = NoRunners]
    ELSE s

\* mutant of gameOverEffect: "pitches > maxPitches" for "pitches >= maxPitches"
gameOverEffect_Gt(p, maxP) == p > maxP

\* useEffect(..., [pitches]): TRUE when it sets inPlay false and gameOver true
gameOverEffect(p, maxP) == p >= maxP

\* mutant of clearAutoTimer: the cleanup does not clear the timer
clearAutoTimer_Keep(timers) == timers

\* the cleanup "() => clearTimeout(id)" of the last run of the effect: its timer, if
\* still pending, is the newest one
clearAutoTimer(timers) == {id \in timers : \E newer \in timers : newer > id}

\* setTimeout returns an id no pending timer has
newTimerId(timers) == CHOOSE n \in 1..(Cardinality(timers) + 1) : n \notin timers

\* mutant of autoPitchEffect: the early return tests "!inPlay" for "inPlay"
autoPitchEffect_InFlight(auto, over, flying) == ~(~auto \/ over \/ ~flying)

\* useEffect(..., [autoPitch, gameOver, inPlay, pitchGapMs, startPitch]):
\* TRUE when the body sets a timer (it does not return early)
autoPitchEffect(auto, over, flying) == ~(~auto \/ over \/ flying)

FlushEffects ==
    /\ pending # {}
    /\ SetSess(IF "outs" \in pending THEN inningEffect(Sess) ELSE Sess)
    /\ LET over == "pitches" \in pending /\ gameOverEffect(pitches, maxPitches) IN
        /\ inPlay' = IF over THEN FALSE ELSE inPlay
        /\ gameOver' = IF over THEN TRUE ELSE gameOver
    /\ autoTimer' = IF "auto" \in pending
                    THEN LET cleared == clearAutoTimer(autoTimer) IN
                         IF autoPitchEffect(autoPitch, gameOver, inPlay)
                         THEN cleared \cup {newTimerId(cleared)}
                         ELSE cleared
                    ELSE autoTimer
    /\ UNCHANGED <<config, pitches, progress, swingAtRef, rafRef, rafQueue, elapsed, event>>
    /\ pending' = ChangedEffects
    /\ UNCHANGED <<probe, ble>>

(* ------------------------------ startPitch ---------------------------- *)
\* mutant of cancelRaf: the scheduled callback is not cancelled
cancelRaf_Keep(q, ref) == q

\* cancelRaf: the callbacks left in the queue q, and the new rafRef
cancelRaf(q, ref) == IF ref # 0 THEN {c \in q : c.id # ref} ELSE q

\* requestAnimationFrame returns an id no pending callback has
newRafId(q) == CHOOSE n \in 1..(Cardinality(q) + 1) : \A c \in q : c.id # n

\* mutant of startPitch: setResult(null) is missing
startPitch_KeepResult ==
    IF inPlay
    THEN UNCHANGED <<session, flight, pitches>>
    ELSE LET q == cancelRaf(rafQueue, rafRef)
             id == newRafId(q)
         IN /\ inPlay' = TRUE
            /\ progress' = 0
            /\ swingAtRef' = NoSwing
            /\ elapsed' = 0
            /\ rafRef' = id
            /\ rafQueue' = q \cup {[id |-> id, plateTime |-> plateTimeMsFromMph(mph)]}
            /\ pitches' = pitches + 1
            /\ UNCHANGED <<strikes, outs, runs, runners, maxPitches, result>>

\* mutant of startPitch: the guard "if (inPlay) return" is dropped
startPitch_NoGuard ==
    LET q == cancelRaf(rafQueue, rafRef)
        id == newRafId(q)
    IN /\ result' = NoResult
       /\ inPlay' = TRUE
       /\ progress' = 0
       /\ swingAtRef' = NoSwing
       /\ elapsed' = 0
       /\ rafRef' = id
       /\ rafQueue' = q \cup {[id |-> id, plateTime |-> plateTimeMsFromMph(mph)]}
       /\ pitches' = pitches + 1
       /\ UNCHANGED <<strikes, outs, runs, runners, maxPitches>>

startPitch ==
    IF inPlay
    THEN UNCHANGED <<session, flight, pitches>>
    ELSE LET q == cancelRaf(rafQueue, rafRef)
             id == newRafId(q)
         IN /\ result' = NoResult
            /\ inPlay' = TRUE
            /\ progress' = 0
            /\ swingAtRef' = NoSwing
            /\ elapsed' = 0
            /\ rafRef' = id
            /\ rafQueue' = q \cup {[id |-> id, plateTime |-> plateTimeMsFromMph(mph)]}
            /\ pitches' = pitches + 1
            /\ UNCHANGED <<strikes, outs, runs, runners, maxPitches>>

\* Enter key, or the pitch button
RequestPitch ==
    /\ pending = {}
    /\ pitches < MaxPitchCount
    /\ startPitch
    /\ event' = "startPitch"
    /\ UNCHANGED <<config, gameOver, autoTimer>>
    /\ pending' = ChangedEffects
    /\ UNCHANGED <<probe, ble>>

\* the timer of the auto-pitch effect fires
AutoPitch ==
    /\ pending = {}
    /\ autoTimer # {}
    /\ pitches < MaxPitchCount
    /\ startPitch
    /\ \E id \in autoTimer : autoTimer' = autoTimer \ {id}
    /\ event' = "autoPitch"
    /\ UNCHANGED <<config, gameOver>>
    /\ pending' = ChangedEffects
    /\ UNCHANGED <<probe, ble>>

(* -------------------------------- step -------------------------------- *)
\* distances before and after the contact point at which the model delivers
\* frames: every threshold, a value inside every band, and one beyond FOUL
EarlyDeltas == {0, 100, 200, 205, 210, 350, 550, 600}
LateDeltas == {150, 400, 600}
\* progress values at which frames are delivered (One ends the flight)
FramePoints ==
    {CONTACT_PROGRESS - d : d \in EarlyDeltas}
        \cup {CONTACT_PROGRESS + d : d \in LateDeltas} \cup {One}

\* mutant of step: "t <= 1" for "t < 1", so the loop reschedules itself at the end of
\* the flight and never settles
step_NeverEnds(cb, e) ==
    LET t == clamp((e * One) \div (cb.plateTime * 100), 0, One)
        rest == rafQueue \ {cb}
        id == newRafId(rest)
    IN /\ elapsed' = e
       /\ progress' = t
       /\ rafRef' = id
       /\ rafQueue' = rest \cup {[id |-> id, plateTime |-> cb.plateTime]}
       /\ UNCHANGED <<session, inPlay>>

\* mutant of step: the duration is read from the current velocity, not from the closure
step_CurrentMph(cb, e) ==
    LET t == clamp((e * One) \div (plateTimeMsFromMph(mph) * 100), 0, One)
        rest == rafQueue \ {cb}
    IN /\ elapsed' = e
       /\ progress' = t
       /\ IF t < One
          THEN LET id == newRafId(rest) IN
               /\ rafRef' = id
               /\ rafQueue' = rest \cup {[id |-> id, plateTime |-> cb.plateTime]}
               /\ UNCHANGED <<session, inPlay>>
          ELSE LET v == stepVerdict(swingAtRef) IN
               /\ SetSess(IF v.kind # "none" THEN settleResult(v, Sess, runners) ELSE Sess)
               /\ rafQueue' = cancelRaf(rest, rafRef)
               /\ rafRef' = 0
               /\ inPlay' = FALSE

\* the frame callback cb runs when performance.now() - startTsRef.current is e
step(cb, e) ==
    LET t == clamp((e * One) \div (cb.plateTime * 100), 0, One)
        rest == rafQueue \ {cb}
    IN /\ elapsed' = e
       /\ progress' = t
       /\ IF t < One
          THEN LET id == newRafId(rest) IN
               /\ rafRef' = id
               /\ rafQueue' = rest \cup {[id |-> id, plateTime |-> cb.plateTime]}
               /\ UNCHANGED <<session, inPlay>>
          ELSE LET v == stepVerdict(swingAtRef) IN
               /\ SetSess(IF v.kind # "none" THEN settleResult(v, Sess, runners) ELSE Sess)
               /\ rafQueue' = cancelRaf(rest, rafRef)
               /\ rafRef' = 0
               /\ inPlay' = FALSE

\* the browser delivers the next animation frame
Frame ==
    /\ pending = {}
    /\ \E cb \in rafQueue, p \in FramePoints :
          LET e == (p * cb.plateTime) \div 100 IN
          /\ e > elapsed
          /\ step(cb, e)
    /\ event' = "step"
    /\ UNCHANGED <<config, pitches, gameOver, swingAtRef, autoTimer>>
    /\ pending' = ChangedEffects
    /\ UNCHANGED <<probe, ble>>

(* ------------------------------- doSwing ------------------------------ *)
\* mutant of doSwing: the guard "if (!inPlay) return" is dropped
doSwing_NoGuard(cInPlay, t, rn) ==
    LET kind == swingVerdict(t) IN
    /\ swingAtRef' = t
    /\ IF kind # "none"
       THEN /\ kind = "foul" => maxPitches < MaxPitchLimit
            /\ SetSess(settleResult(Res(kind, "-"), Sess, rn))
            /\ inPlay' = FALSE
       ELSE UNCHANGED <<session, inPlay>>

\* doSwing of a closure that captured inPlay = cInPlay, progress = t, runners = rn
doSwing(cInPlay, t, rn) ==
    IF ~cInPlay
    THEN UNCHANGED <<session, inPlay, swingAtRef>>
    ELSE LET kind == swingVerdict(t) IN
         /\ swingAtRef' = t
         /\ IF kind # "none"
            THEN /\ kind = "foul" => maxPitches < MaxPitchLimit
                 /\ SetSess(settleResult(Res(kind, "-"), Sess, rn))
                 /\ inPlay' = FALSE
            ELSE UNCHANGED <<session, inPlay>>

\* Space key, or the swing button: the handler of the latest render
RequestSwing ==
    /\ pending = {}
    /\ doSwing(inPlay, progress, runners)
    /\ event' = "doSwing"
    /\ UNCHANGED <<config, pitches, gameOver, progress, rafRef, rafQueue, elapsed, autoTimer>>
    /\ pending' = ChangedEffects
    /\ UNCHANGED <<probe, ble>>

(* ------------------------------- resetAll ----------------------------- *)
resetAll ==
    /\ pending = {}
    /\ strikes' = 0 /\ outs' = 0 /\ runs' = 0 /\ pitches' = 0 /\ result' = NoResult
    /\ inPlay' = FALSE /\ progress' = 0
    /\ runners' = NoRunners
    /\ gameOver' = FALSE
    /\ event' = "resetAll"
    /\ UNCHANGED <<config, maxPitches, swingAtRef, rafRef, rafQueue, elapsed, autoTimer>>
    /\ pending' = ChangedEffects
    /\ UNCHANGED <<probe, ble>>

(* ---------------------------- configuration --------------------------- *)
SetMph ==
    /\ pending = {}
    /\ \E v \in MphValues \ {mph} : mph' = v
    /\ UNCHANGED <<pitchGapMs, autoPitch, pitchType, session, flight, pitches, gameOver, autoTimer, event>>
    /\ pending' = ChangedEffects
    /\ UNCHANGED <<probe, ble>>

SetPitchGapMs ==
    /\ pending = {}
    /\ \E v \in GapValues \ {pitchGapMs} : pitchGapMs' = v
    /\ UNCHANGED <<mph, autoPitch, pitchType, session, flight, pitches, gameOver, autoTimer, event>>
    /\ pending' = ChangedEffects
    /\ UNCHANGED <<probe, ble>>

SetAutoPitch ==
    /\ pending = {}
    /\ autoPitch' = ~autoPitch
    /\ UNCHANGED <<mph, pitchGapMs, pitchType, session, flight, pitches, gameOver, autoTimer, event>>
    /\ pending' = ChangedEffects
    /\ UNCHANGED <<probe, ble>>

SetPitchType ==
    /\ pending = {}
    /\ \E v \in PitchTypes \ {pitchType} : pitchType' = v
    /\ UNCHANGED <<mph, pitchGapMs, autoPitch, session, flight, pitches, gameOver, autoTimer, event>>
    /\ pending' = ChangedEffects
    /\ UNCHANGED <<probe, ble>>

(* ------------------------------ useBleSwing --------------------------- *)
\* the hook before connect: no listener, lastSwingAtRef = 0
NoBle == [listening |-> FALSE, inPlay |-> FALSE, progress |-> 0, runners |-> NoRunners,
          last |-> 0, now |-> 0, calls |-> <<>>]

\* texts a notification carries, after decoding and trim()
Messages == {"SWING", "swing", "PING"}
ToUpperCase(text) == IF text = "swing" THEN "SWING" ELSE text
\* text.includes(token), for the one-word texts of Messages
Includes(text, token) == text = token

\* connect: the listener registered is the handleNotify of the render of the click,
\* which holds the doSwing (inPlay, progress) and settleResult (runners) of that render
connect ==
    /\ pending = {}
    /\ ~ble.listening
    /\ ble' = [ble EXCEPT !.listening = TRUE, !.inPlay = inPlay,
                           !.progress = progress, !.runners = runners]
    /\ UNCHANGED <<engine, probe>>

\* disconnect: removeEventListener; lastSwingAtRef is kept
disconnect ==
    /\ pending = {}
    /\ ble.listening
    /\ ble' = [ble EXCEPT !.listening = FALSE]
    /\ UNCHANGED <<engine, probe>>

\* mutant of handleNotify: lastSwingAtRef is not updated when a swing is accepted
handleNotify_NoUpdate(gap, text) ==
    LET now == ble.now + gap IN
    /\ pending = {}
    /\ ble.listening
    /\ now <= MaxBleNow
    /\ IF Includes(ToUpperCase(text), ToUpperCase("SWING")) /\ now - ble.last >= debounceMs
       THEN /\ ble' = [ble EXCEPT !.now = now, !.calls = Append(@, now)]
            /\ doSwing(ble.inPlay, ble.progress, ble.runners)
            /\ event' = "bleSwing"
       ELSE /\ ble' = [ble EXCEPT !.now = now]
            /\ UNCHANGED <<session, inPlay, swingAtRef, event>>
    /\ UNCHANGED <<config, pitches, gameOver, progress, rafRef, rafQueue, elapsed, autoTimer>>
    /\ pending' = ChangedEffects
    /\ UNCHANGED probe

\* handleNotify: a notification with the given text arrives gap ms after the last one
handleNotify(gap, text) ==
    LET now == ble.now + gap IN
    /\ pending = {}
    /\ ble.listening
    /\ now <= MaxBleNow
    /\ IF Includes(ToUpperCase(text), ToUpperCase("SWING")) /\ now - ble.last >= debounceMs
       THEN /\ ble' = [ble EXCEPT !.now = now, !.last = now, !.calls = Append(@, now)]
            /\ doSwing(ble.inPlay, ble.progress, ble.runners)
            /\ event' = "bleSwing"
       ELSE /\ ble' = [ble EXCEPT !.now = now]
            /\ UNCHANGED <<session, inPlay, swingAtRef, event>>
    /\ UNCHANGED <<config, pitches, gameOver, progress, rafRef, rafQueue, elapsed, autoTimer>>
    /\ pending' = ChangedEffects
    /\ UNCHANGED probe

(* ---------------------------- specification --------------------------- *)
\* the state after the first render and its effects (the auto-pitch timer is set)
Init ==
    /\ mph = InitialMph /\ pitchGapMs = InitialPitchGapMs
    /\ autoPitch = TRUE /\ pitchType = "straight"
    /\ inPlay = FALSE /\ progress = 0 /\ result = NoResult
    /\ strikes = 0 /\ outs = 0 /\ runs = 0 /\ pitches = 0
    /\ maxPitches = InitialMaxPitches
    /\ gameOver = FALSE /\ runners = NoRunners
    /\ swingAtRef = NoSwing /\ rafRef = 0 /\ rafQueue = {} /\ elapsed = 0
    /\ autoTimer = {1} /\ pending = {} /\ event = "mount"
    /\ probe = NoCall
    /\ ble = NoBle

Next ==
    \/ RequestPitch
    \/ AutoPitch
    \/ RequestSwing
    \/ Frame
    \/ FlushEffects
    \/ resetAll
    \/ SetAutoPitch

Spec == Init /\ [][Next]_vars

(* ------------- the engine with the configuration controls -------------- *)
\* the engine's events while at most ConfigPitchCount pitches have been thrown, and
\* the velocity slider, the gap slider and the pitch-type buttons at any time
NextConfig ==
    \/ Next /\ pitches' <= ConfigPitchCount
    \/ SetMph
    \/ SetPitchGapMs
    \/ SetPitchType

SpecConfig == Init /\ [][NextConfig]_vars

(* ------------------- the engine with its scheduling -------------------- *)
\* the engine's events while at most LivePitchCount pitches have been thrown
NextLive == Next /\ pitches' <= LivePitchCount

\* a timer that is set fires, and the effects of a render run
SpecLive ==
    /\ Init /\ [][NextLive]_vars
    /\ WF_vars(AutoPitch /\ pitches' <= LivePitchCount)
    /\ WF_vars(FlushEffects)

\* the same events; a frame callback that is scheduled is delivered however the other
\* events interleave, and the effects of a render run
SpecFlight ==
    /\ Init /\ [][NextLive]_vars
    /\ SF_vars(Frame)
    /\ WF_vars(FlushEffects)

(* ------------------------ one session, unattended ----------------------- *)
\* automatic pitching is left on and resetAll is not called: pitches by the timer or by
\* hand, swings, frames and the effects, until pitches reaches MaxPitchLimit (maxPitches
\* cannot pass it, so only finitely many fouls are called)
NextSession ==
    /\ RequestPitch \/ AutoPitch \/ RequestSwing \/ Frame \/ FlushEffects
    /\ pitches' <= MaxPitchLimit

\* a timer that is set fires, a frame callback that is scheduled is delivered, and the
\* effects of a render run
SpecSession ==
    /\ Init /\ [][NextSession]_vars
    /\ WF_vars(AutoPitch /\ pitches' <= MaxPitchLimit)
    /\ SF_vars(Frame)
    /\ WF_vars(FlushEffects)

(* ----------------------- the sensor, on its own ------------------------- *)
\* times between two notifications (ms) used by the specification SpecDebounce
NotifyGaps == {50, 200, 250, 300}

NextDebounce ==
    \/ connect
    \/ disconnect
    \/ \E gap \in NotifyGaps, text \in Messages : handleNotify(gap, text)

SpecDebounce == Init /\ [][NextDebounce]_vars

(* ---------------------- the engine with the sensor ---------------------- *)
\* pitches started by hand up to BlePitchCount, their frames, keyboard swings and the
\* effects, and the sensor sending one swing
NextBle ==
    \/ RequestPitch /\ pitches' <= BlePitchCount
    \/ Frame
    \/ RequestSwing
    \/ FlushEffects
    \/ connect
    \/ disconnect
    \/ handleNotify(MaxBleNow, "SWING")

SpecBle == Init /\ [][NextBle]_vars

(* ---------------- the pure functions, called on their own -------------- *)
\* arguments the specification Pure calls the pure functions with
AdvanceNs == 1..4
SettleKinds == {"strike", "foul", "single", "double", "triple", "homerun"}
SettleRuns == {0, 7}
SettleSessions ==
    [strikes : 0..2, outs : 0..2, runs : SettleRuns, runners : RunnersSet,
     maxPitches : {InitialMaxPitches}, result : {NoResult}]

CallAdvanceBases ==
    /\ \E st \in RunnersSet, n \in AdvanceNs :
          probe' = [fn |-> "advanceBases", args |-> [state |-> st, n |-> n],
                    ret |-> advanceBases(st, n)]
    /\ UNCHANGED <<engine, ble>>

\* settleResult as doSwing and step call it: the closure's runners are the current ones
CallSettleResult ==
    /\ \E k \in SettleKinds, s \in SettleSessions :
          LET r == Res(k, IF k = "strike" THEN "miss" ELSE "-") IN
          probe' = [fn |-> "settleResult", args |-> [r |-> r, s |-> s],
                    ret |-> settleResult(r, s, s.runners)]
    /\ UNCHANGED <<engine, ble>>

\* velocities plateTimeMsFromMph is called with: the slider's 70..100 and beyond
PlateMphs == -10..130

CallPlateTime ==
    /\ \E v \in PlateMphs :
          probe' = [fn |-> "plateTimeMsFromMph", args |-> [mph |-> v],
                    ret |-> plateTimeMsFromMph(v)]
    /\ UNCHANGED <<engine, ble>>

NextPure ==
    \/ CallAdvanceBases
    \/ CallSettleResult
    \/ CallPlateTime

Pure == Init /\ [][NextPure]_vars

(* ------------------------- what a step was ---------------------------- *)
\* this step is the handler named e (the effects of the render before it have run,
\* and it is no configuration setter)
Handled(e) == pending = {} /\ config' = config /\ event' = e

\* a swing handled while a pitch is in flight, delta its distance from the contact point
SwingInFlight == Handled("doSwing") /\ inPlay
delta == Abs(progress - CONTACT_PROGRESS)

\* the frame callback that ends the flight (t = 1)
FlightEnd == Handled("step") /\ progress' = One

Occupied(rn) == (IF rn.on1 THEN 1 ELSE 0) + (IF rn.on2 THEN 1 ELSE 0) + (IF rn.on3 THEN 1 ELSE 0)

(* ------------------------------ sanity -------------------------------- *)
TypeOK ==
    /\ mph \in MphValues /\ pitchGapMs \in GapValues
    /\ autoPitch \in BOOLEAN /\ pitchType \in PitchTypes
    /\ inPlay \in BOOLEAN /\ progress \in 0..One
    /\ result \in [kind : SettleKinds \cup {"none"}, reason : {"-", "miss", "early", "late"}]
    /\ strikes \in 0..2 /\ outs \in 0..3 /\ runs \in Nat
    /\ pitches \in 0..MaxPitchCount /\ maxPitches \in InitialMaxPitches..MaxPitchLimit
    /\ gameOver \in BOOLEAN /\ runners \in RunnersSet
    /\ swingAtRef \in {NoSwing} \cup 0..One
    /\ rafRef \in Nat /\ elapsed \in Nat
    /\ \A c \in rafQueue : c.id \in Nat \ {0} /\ c.plateTime \in 400..2000
    /\ autoTimer \subseteq {1}
    /\ pending \subseteq {"outs", "pitches", "auto"}
    /\ event \in {"mount", "startPitch", "autoPitch", "doSwing", "step", "resetAll", "bleSwing"}

\* while a pitch is in flight no verdict is displayed
InFlightNoResult == inPlay => result = NoResult

\* once the effects have run, the timer is pending exactly when the effect sets it
TimerAsEffect == pending = {} /\ autoTimer # {} => autoPitch /\ ~gameOver /\ ~inPlay

(* ------------------------------- claims ------------------------------- *)
\* the verdict the ladder of the claim gives for a distance d ("none": no verdict)
LadderKind(d) ==
    CASE d <= PERFECT -> "homerun"
      [] d > PERFECT /\ d <= GOOD -> "double"
      [] d > GOOD /\ d <= OKAY /\ d * 10 < OKAY * 6 -> "double"
      [] d > GOOD /\ d <= OKAY /\ d * 10 >= OKAY * 6 -> "single"
      [] d > OKAY /\ d <= FOUL -> "foul"
      [] OTHER -> "none"

\* C1: a swing handled while a pitch is in flight gets the verdict of the ladder on
\* delta = |progress - CONTACT_PROGRESS|: homerun up to PERFECT, double up to GOOD,
\* up to OKAY double below OKAY*0.6 and single from OKAY*0.6 on, foul up to FOUL,
\* and beyond FOUL the swing produces no verdict (the result stays as it was).
C1_SwingLadder ==
    [][SwingInFlight =>
          IF LadderKind(delta) = "none"
          THEN result' = result
          ELSE result' = Res(LadderKind(delta), "-")]_vars

\* C1 witness: a swing exactly OKAY*0.6 from the contact point was called a single
C1_Witness ==
    /\ event = "doSwing"
    /\ swingAtRef = CONTACT_PROGRESS - 210
    /\ result = Res("single", "-")

\* C2 as claimed: when the flight ends without a verdict, the verdict is strike{miss}
\* if and only if no swing was recorded during the flight, and a recorded swing more
\* than FOUL from the contact point (at any progress, 0 included) gives strike{early}
\* below the contact point and strike{late} otherwise.
C2_FlightEndVerdict ==
    [][(FlightEnd /\ result = NoResult) =>
          /\ (result' = Res("strike", "miss")) <=> (swingAtRef = NoSwing)
          /\ (swingAtRef # NoSwing /\ Abs(swingAtRef - CONTACT_PROGRESS) > FOUL)
                => result' = Res("strike", IF swingAtRef < CONTACT_PROGRESS
                                              THEN "early" ELSE "late")]_vars

\* C3: a swing in flight more than FOUL from the contact point produces no verdict and
\* leaves strikes, outs, runs, runners, pitches, maxPitches, result and inPlay as they were.
C3_FarSwingFrame ==
    [][(SwingInFlight /\ delta > FOUL) =>
          UNCHANGED <<strikes, outs, runs, runners, pitches, maxPitches, result, inPlay>>]_vars

\* C3 witness: a swing was recorded 600 before the contact point and the pitch goes on
C3_Witness ==
    /\ event = "doSwing"
    /\ inPlay
    /\ swingAtRef = CONTACT_PROGRESS - 600
    /\ progress = swingAtRef
    /\ result = NoResult

\* C4: a strike verdict adds one to strikes; if that makes 3, outs goes up by one and
\* strikes becomes 0; runs and runners are unchanged.
C4_Strike ==
    [][(FlightEnd /\ result'.kind = "strike") =>
          /\ strikes' = IF strikes + 1 = 3 THEN 0 ELSE strikes + 1
          /\ outs' = IF strikes + 1 = 3 THEN outs + 1 ELSE outs
          /\ UNCHANGED <<runs, runners>>]_vars

\* C4 witness: the third strike of a batter has just made the second out
C4_Witness ==
    /\ event = "step"
    /\ result.kind = "strike"
    /\ strikes = 0
    /\ outs = 2

\* C5: a foul verdict adds one to strikes only below 2 and leaves strikes at 2
\* otherwise; it adds exactly 1 to maxPitches; outs, runs and runners are unchanged.
C5_Foul ==
    [][(SwingInFlight /\ result'.kind = "foul") =>
          /\ strikes' = IF strikes < 2 THEN strikes + 1 ELSE 2
          /\ maxPitches' = maxPitches + 1
          /\ UNCHANGED <<outs, runs, runners>>]_vars

\* C5 witness: the third pitch was fouled off after two strikes (no run, no out, no
\* earlier foul), and the count is still 2
C5_Witness ==
    /\ event = "doSwing"
    /\ result.kind = "foul"
    /\ pitches = 3 /\ runs = 0 /\ outs = 0
    /\ maxPitches = InitialMaxPitches + 1
    /\ strikes = 2

\* C6: a homerun verdict adds 5 plus the number of occupied bases to runs, clears the
\* three bases and sets strikes to 0; outs is unchanged.
C6_Homerun ==
    [][(SwingInFlight /\ result'.kind = "homerun") =>
          /\ runs' = runs + 5 + Occupied(runners)
          /\ runners' = NoRunners
          /\ strikes' = 0
          /\ outs' = outs]_vars

\* C6 witness: three singles loaded the bases (3 runs) and the fourth pitch was hit
\* for a homerun worth 8
C6_Witness ==
    /\ event = "doSwing"
    /\ result.kind = "homerun"
    /\ pitches = 4 /\ runs = 3 + 8
    /\ runners = NoRunners /\ strikes = 0

\* bases gained by the batter on a single, double or triple
BasesOf(kind) == CASE kind = "single" -> 1 [] kind = "double" -> 2 [] kind = "triple" -> 3

\* C7: a single, double or triple verdict adds to runs exactly 1 plus the scored count
\* of advanceBases(runners, n) for n = 1, 2, 3, replaces the runners by the occupancy
\* advanceBases returns and sets strikes to 0; outs is unchanged.
C7_Hit ==
    (probe.fn = "settleResult" /\ probe.args.r.kind \in {"single", "double", "triple"}) =>
        LET s == probe.args.s
            adv == advanceBases(s.runners, BasesOf(probe.args.r.kind))
        IN /\ probe.ret.runs = s.runs + 1 + adv.scored
           /\ probe.ret.runners = adv.next
           /\ probe.ret.strikes = 0
           /\ probe.ret.outs = s.outs

\* C7 witness: a triple with the bases loaded and two strikes scored 1 + 3
C7_Witness ==
    /\ probe.fn = "settleResult"
    /\ probe.args.r.kind = "triple"
    /\ probe.args.s.runners = [on1 |-> TRUE, on2 |-> TRUE, on3 |-> TRUE]
    /\ probe.args.s.strikes = 2
    /\ probe.ret.runs = probe.args.s.runs + 4
    /\ probe.ret.runners = [on1 |-> FALSE, on2 |-> FALSE, on3 |-> TRUE]

\* base i (0 = first, 1 = second, 2 = third) of an occupancy
OnBase(rn, i) == CASE i = 0 -> rn.on1 [] i = 1 -> rn.on2 [] i = 2 -> rn.on3

\* C8: for each of the 8 occupancies and n in 1..3, advanceBases returns base j
\* occupied iff j = n-1 (the batter) or an occupied base i has i + n = j < 3, and
\* scored = the number of occupied bases i with i + n >= 3.
C8_AdvanceBases ==
    (probe.fn = "advanceBases" /\ probe.args.n \in 1..3) =>
        LET st == probe.args.state
            n == probe.args.n
        IN /\ \A j \in 0..2 :
                 OnBase(probe.ret.next, j) <=>
                     (j = n - 1 \/ \E i \in 0..2 : OnBase(st, i) /\ i + n = j)
           /\ probe.ret.scored = Cardinality({i \in 0..2 : OnBase(st, i) /\ i + n >= 3})

\* C8 witness: runners on first and third and n = 1 gave first and second, one scored
C8_Witness ==
    /\ probe.fn = "advanceBases"
    /\ probe.args = [state |-> [on1 |-> TRUE, on2 |-> FALSE, on3 |-> TRUE], n |-> 1]
    /\ probe.ret = [next |-> [on1 |-> TRUE, on2 |-> TRUE, on3 |-> FALSE], scored |-> 1]

\* C9: advanceBases loses and duplicates no runner: for n in 1..3, the bases occupied
\* before plus the batter are the bases occupied after plus scored, and no runner's
\* target i + n is the batter's base n - 1.
C9_RunnersConserved ==
    (probe.fn = "advanceBases" /\ probe.args.n \in 1..3) =>
        /\ Occupied(probe.args.state) + 1 = Occupied(probe.ret.next) + probe.ret.scored
        /\ \A i \in 0..2 : OnBase(probe.args.state, i) => i + probe.args.n # probe.args.n - 1

\* C9 witness: with the bases loaded and n = 2, two runners scored and two bases are held
C9_Witness ==
    /\ probe.fn = "advanceBases"
    /\ probe.args.n = 2
    /\ Occupied(probe.args.state) = 3
    /\ probe.ret.scored = 2
    /\ Occupied(probe.ret.next) = 2

\* C10: whenever outs has reached 3, the next step (the inning effect) sets outs and
\* strikes to 0 and clears the bases, and leaves runs, pitches, maxPitches and
\* gameOver as they were.
C10_InningReset ==
    [][outs >= 3 =>
          /\ outs' = 0 /\ strikes' = 0 /\ runners' = NoRunners
          /\ UNCHANGED <<runs, pitches, maxPitches, gameOver>>]_vars

\* C10 witness: a strike verdict is displayed with no strike and no out on the board,
\* which only the inning effect after the third out produces; the runs are kept
C10_Witness ==
    /\ event = "step"
    /\ result.kind = "strike"
    /\ strikes = 0 /\ outs = 0
    /\ runners = NoRunners
    /\ runs > 0
    /\ pending = {}

\* a start-pitch request was handled: the Enter key or the pitch button, or the timer
PitchRequested == Handled("startPitch") \/ Handled("autoPitch")

\* C11: a start-pitch request (manual or from the timer) handled while a pitch is in
\* flight changes nothing: pitches, progress, the recorded swing, the result, the
\* scheduled frame callbacks and the session counters stay as they were.
C11_PitchInFlightNoOp ==
    [][(PitchRequested /\ inPlay) =>
          UNCHANGED <<pitches, progress, swingAtRef, result, rafRef, rafQueue, elapsed,
                      inPlay, strikes, outs, runs, runners, maxPitches, gameOver>>]_vars

\* C11 witness: the last handler was a pitch request, and the pitch in flight is past
\* its start with a swing on record, so that request started nothing
C11_Witness ==
    /\ event = "startPitch"
    /\ inPlay
    /\ progress > 0
    /\ swingAtRef = progress
    /\ pitches = 1

\* C12: a swing handled while no pitch is in flight changes nothing: strikes, outs,
\* runs, runners, pitches, maxPitches, the result and the recorded swing stay as they
\* were, and the pitch stays out of flight.
C12_SwingIdleNoOp ==
    [][(Handled("doSwing") /\ ~inPlay) =>
          UNCHANGED <<strikes, outs, runs, runners, pitches, maxPitches, result,
                      swingAtRef, inPlay>>]_vars

\* C12 witness: the last handler was a swing, and the board shows the strike the end of
\* the flight called with no swing on record, so the swing came after the flight
C12_Witness ==
    /\ event = "doSwing"
    /\ ~inPlay
    /\ result = Res("strike", "miss")
    /\ swingAtRef = NoSwing
    /\ progress = One

\* C13: at most one frame callback is scheduled at any time, whatever pitch requests,
\* swings, frames, timer firings, configuration changes and resets came before; the
\* callback scheduled is the one rafRef names.
C13_OneFrameLoop ==
    /\ Cardinality(rafQueue) <= 1
    /\ \A c \in rafQueue : c.id = rafRef

\* C13 witness: a pitch was fouled off (its loop runs on), the game was reset, the
\* velocity was changed and a pitch was started: one callback is scheduled, the new one
C13_Witness ==
    /\ event = "startPitch"
    /\ inPlay /\ progress = 0 /\ elapsed = 0
    /\ pitches = 1
    /\ maxPitches = InitialMaxPitches + 1
    /\ Cardinality(rafQueue) = 1
    /\ \A c \in rafQueue : c.plateTime = plateTimeMsFromMph(mph)
    /\ mph # InitialMph

\* C14: a pitch gets at most one verdict.  A swing in flight within FOUL of the contact
\* point sets a verdict and takes the pitch out of flight in the same step; and while a
\* verdict is displayed, neither a swing nor a frame callback (the end of the flight
\* included) changes the result, strikes, outs, runs, runners or maxPitches.
C14_OneVerdict ==
    [][/\ (SwingInFlight /\ delta <= FOUL) => (~inPlay' /\ result' # NoResult)
       /\ (result # NoResult /\ (Handled("doSwing") \/ Handled("step"))) =>
              UNCHANGED <<result, strikes, outs, runs, runners, maxPitches>>]_vars

\* C14 witness: the loop of a pitch hit for a homerun has run to the end of the flight,
\* and the homerun is still the verdict
C14_Witness ==
    /\ event = "step"
    /\ progress = One
    /\ rafQueue = {}
    /\ result = Res("homerun", "-")
    /\ swingAtRef = CONTACT_PROGRESS
    /\ runs = 5 /\ strikes = 0 /\ outs = 0
    /\ pitches = 1

\* C15 as claimed: the frame callback that ends the flight (t = 1) of a pitch that is
\* already out of flight (ended by a swing, by game over or by a reset) produces no
\* verdict and changes no session counter.
C15_EndAfterEndNoOp ==
    [][(FlightEnd /\ ~inPlay) =>
          UNCHANGED <<result, strikes, outs, runs, runners, maxPitches>>]_vars

\* C16: once the effects of a render have run, gameOver is true if pitches has reached
\* maxPitches; and a step from a state where gameOver is true leaves it true unless
\* the step is resetAll.
C16_GameOverOneWay ==
    /\ []((pending = {} /\ pitches >= maxPitches) => gameOver)
    /\ [][(gameOver /\ ~Handled("resetAll")) => gameOver']_vars

\* C16 witness: after one foul the limit is 6, the sixth pitch ended the game, and its
\* flight has since run to the end with the game still over
C16_Witness ==
    /\ gameOver
    /\ maxPitches = InitialMaxPitches + 1
    /\ pitches = maxPitches
    /\ event = "step"
    /\ progress = One
    /\ pending = {}

\* C17 as claimed: while gameOver is true, no step other than resetAll (a manual pitch
\* request, a swing, a frame callback, the timer) changes pitches, strikes, outs, runs,
\* runners or the result, and no pitch goes into flight.
C17_GameOverTerminal ==
    [][(gameOver /\ ~Handled("resetAll")) =>
          /\ UNCHANGED <<pitches, strikes, outs, runs, runners, result>>
          /\ ~(~inPlay /\ inPlay')]_vars

\* C18 as claimed: resetAll leaves strikes, outs, runs, pitches, maxPitches, gameOver,
\* the runners, inPlay, progress and the result at their initial values, whatever the
\* state it is called in (so a second resetAll changes nothing).
C18_ResetToInitial ==
    [][Handled("resetAll") =>
          /\ strikes' = 0 /\ outs' = 0 /\ runs' = 0 /\ pitches' = 0
          /\ maxPitches' = InitialMaxPitches
          /\ gameOver' = FALSE
          /\ runners' = NoRunners
          /\ inPlay' = FALSE /\ progress' = 0
          /\ result' = NoResult]_vars

\* C19 as claimed: from resetAll until a pitch is started (event is "resetAll" as long
\* as no handler of the engine has run since), no step produces a verdict or changes
\* strikes, outs, runs, the runners or progress.
C19_NoStaleLoopAfterReset ==
    [][(event = "resetAll" /\ ~PitchRequested) =>
          UNCHANGED <<result, strikes, outs, runs, runners, progress>>]_vars

\* C20: whenever automatic pitching is on, the game is not over and no pitch is in
\* flight, a pitch eventually goes into flight with no manual request needed (only
\* the timer and the effects are scheduled fairly), unless automatic pitching is
\* switched off first.
C20_AutoPitchStarts ==
    (autoPitch /\ ~gameOver /\ ~inPlay /\ pitches < LivePitchCount)
        ~> (inPlay \/ ~autoPitch)

\* C20 witness: the first pitch ended in a strike, and the timer has started the second
C20_Witness ==
    /\ event = "autoPitch"
    /\ inPlay
    /\ pitches = 2
    /\ strikes = 1
    /\ autoPitch

C22_Debounce ==
    \A i, j \in 1..Len(ble.calls) :
        i < j => ble.calls[j] - ble.calls[i] >= debounceMs

\* C22 witness: onSwing was invoked twice, exactly debounceMs apart, and a notification
\* 50 ms after the second invocation has been received without a third
C22_Witness ==
    /\ Len(ble.calls) = 2
    /\ ble.calls[2] - ble.calls[1] = debounceMs
    /\ ble.last = ble.calls[2]
    /\ ble.now = ble.last + 50

\* C23 as claimed: a swing the sensor hook passes on has the effect of a keyboard or
\* button swing made in the same state: doSwing on the current inPlay, progress and
\* runners, not on those of the render in which connect was called.
C23_SensorSwingAsKeyboard ==
    [][Handled("bleSwing") => doSwing(inPlay, progress, runners)]_vars

\* the verdicts a swing produces at once
SwingKinds == {"homerun", "double", "single", "foul"}

\* C24 as claimed: while the verdict of a swing (a hit or a foul) is displayed, no frame
\* callback changes progress: it stays at the value the swing sampled until the next
\* pitch starts or resetAll is called.
C24_ProgressFrozen ==
    [][(result.kind \in SwingKinds /\ Handled("step")) => progress' = progress]_vars

\* C25: a change of the velocity, the gap, the automatic-pitch flag or the pitch type
\* changes none of strikes, outs, runs, runners, pitches, the recorded swing, progress
\* and the scheduled frame callback; and every frame of a flight computes progress from
\* the duration fixed when the pitch started, which the callback carries on unchanged.
C25_ConfigNextPitch ==
    [][/\ (config' # config) =>
              UNCHANGED <<strikes, outs, runs, runners, pitches, swingAtRef, progress,
                          rafQueue, inPlay>>
       /\ Handled("step") =>
              \E cb \in rafQueue :
                  /\ progress' = clamp((elapsed' * One) \div (cb.plateTime * 100), 0, One)
                  /\ \A c \in rafQueue' : c.plateTime = cb.plateTime]_vars

\* C25 witness: the velocity was changed while a pitch was in flight, and a frame has
\* since set progress from the duration of the velocity the pitch was started at
C25_Witness ==
    /\ event = "step"
    /\ inPlay
    /\ progress = CONTACT_PROGRESS
    /\ mph # InitialMph
    /\ \E cb \in rafQueue :
          /\ cb.plateTime = plateTimeMsFromMph(InitialMph)
          /\ cb.plateTime # plateTimeMsFromMph(mph)
          /\ progress = clamp((elapsed * One) \div (cb.plateTime * 100), 0, One)

\* the velocities of the slider
SliderMphs == 70..100

\* C27: plateTimeMsFromMph is strictly decreasing on 70..100, and for every integer
\* velocity, also outside that range, it returns a duration within 400..2000 ms.
C27_PlateTimeMonotone ==
    probe.fn = "plateTimeMsFromMph" =>
        /\ probe.ret \in 400..2000
        /\ probe.args.mph \in SliderMphs =>
              \A v \in SliderMphs :
                  /\ v > probe.args.mph => plateTimeMsFromMph(v) < probe.ret
                  /\ v < probe.args.mph => plateTimeMsFromMph(v) > probe.ret

\* C27 witness: a velocity above the range was given the duration of 100 mph
C27_Witness ==
    /\ probe.fn = "plateTimeMsFromMph"
    /\ probe.args.mph = 130
    /\ probe.ret = 400

\* C30 as claimed: plateTimeMsFromMph(70) is 600 ms, plateTimeMsFromMph(100) is 400 ms,
\* and between them the duration lies on the line through these two points.
C30_DocumentedMapping ==
    (probe.fn = "plateTimeMsFromMph" /\ probe.args.mph \in SliderMphs) =>
        3 * probe.ret = 3 * 600 - 20 * (probe.args.mph - 70)

\* C28: strikes is 0, 1 or 2 in every reachable state, and outs is 0, 1 or 2 in every
\* state in which a request is handled (the effects of the last render have run);
\* outs = 3 exists only until the inning effect has run.
C28_CountRanges ==
    /\ strikes \in 0..2
    /\ outs \in 0..3
    /\ pending = {} => outs \in 0..2

\* C28 witness: the eighth strike in a row has left both counts at 2
C28_Witness ==
    /\ event = "step"
    /\ result.kind = "strike"
    /\ strikes = 2 /\ outs = 2
    /\ pitches = 8
    /\ pending = {}

\* the verdicts that score
HitKinds == {"single", "double", "triple", "homerun"}

\* C29: no step other than resetAll makes runs smaller, and a step that makes runs
\* larger is one that sets a single, double, triple or homerun verdict.
C29_RunsMonotone ==
    [][~Handled("resetAll") =>
          /\ runs' >= runs
          /\ runs' > runs =>
                /\ result'.kind \in HitKinds
                /\ Handled("doSwing") \/ Handled("step")
                /\ result = NoResult]_vars

\* C29 witness: after a single and a homerun with that runner on base (1 + 6 runs) the
\* third pitch was a strike, and the seven runs are still on the board
C29_Witness ==
    /\ event = "step"
    /\ result.kind = "strike"
    /\ runs = 1 + 6
    /\ strikes = 1
    /\ pitches = 3
    /\ pending = {}

\* C31: progress is always within [0, 1]; a start-pitch request accepted (no pitch in
\* flight) sets it to 0; and a frame callback never decreases it: the clock of a flight
\* only advances, and the duration is the one the loop captured at the start.
C31_ProgressRange ==
    /\ [](progress >= 0 /\ progress <= One)
    /\ [][(PitchRequested /\ ~inPlay) => progress' = 0]_vars
    /\ [][Handled("step") => progress' >= progress]_vars

\* C31 witness: within one flight a frame brought progress to 600 before the contact
\* point, where a swing was recorded, the velocity was changed, and a later frame of
\* the same loop brought it past the contact point
C31_Witness ==
    /\ event = "step"
    /\ inPlay
    /\ pitches = 1
    /\ swingAtRef = CONTACT_PROGRESS - 600
    /\ progress = CONTACT_PROGRESS + 150
    /\ \A c \in rafQueue : c.plateTime # plateTimeMsFromMph(mph)

\* a start-pitch request that is accepted: handled while no pitch is in flight
PitchAccepted == PitchRequested /\ ~inPlay

\* C32: an accepted start-pitch request adds exactly 1 to pitches, and no other step
\* changes pitches (swings, verdicts, frame callbacks, the three-out reset, the effects
\* and configuration changes leave it as it is), resetAll apart, which sets it to 0;
\* maxPitches never decreases, and a step changes it only by adding 1 with a foul verdict.
C32_PitchCountFrame ==
    [][/\ PitchAccepted => pitches' = pitches + 1
       /\ (~PitchAccepted /\ ~Handled("resetAll")) => pitches' = pitches
       /\ Handled("resetAll") => pitches' = 0
       /\ maxPitches' >= maxPitches
       /\ maxPitches' # maxPitches =>
              /\ maxPitches' = maxPitches + 1
              /\ result' = Res("foul", "-")]_vars

\* C32 witness: nine pitches, one of them fouled off (the limit is 6), every one a
\* strike, the last of them called at the end of its flight: the third out has just
\* cleared the count, and pitches is still 9
C32_Witness ==
    /\ event = "step"
    /\ pending = {}
    /\ pitches = 9
    /\ maxPitches = InitialMaxPitches + 1
    /\ result = Res("strike", "miss")
    /\ strikes = 0 /\ outs = 0 /\ runs = 0

C34_InFlightAgrees == (rafQueue # {} /\ result = NoResult) => inPlay

\* C35 as claimed: in every reachable state pitches is at most maxPitches.
C35_PitchesWithinLimit == pitches <= maxPitches

\* C36 as claimed: within one flight the most recent swing decides.  A swing in flight
\* replaces the recorded swing; after a swing more than FOUL from the contact point (the
\* pitch is still in flight with a swing on record) a later swing within FOUL gets the
\* verdict of the ladder; and when the flight ends with only such swings on record, the
\* verdict is strike{early} if the last recorded progress is below the contact point
\* and strike{late} otherwise, whatever that progress (0 included).
C36_LastSwingDecides ==
    [][/\ SwingInFlight => swingAtRef' = progress
       /\ (SwingInFlight /\ swingAtRef # NoSwing /\ delta <= FOUL) =>
              (result'.kind = LadderKind(delta) /\ ~inPlay')
       /\ (FlightEnd /\ result = NoResult /\ swingAtRef # NoSwing
             /\ Abs(swingAtRef - CONTACT_PROGRESS) > FOUL) =>
              result' = Res("strike", IF swingAtRef < CONTACT_PROGRESS
                                         THEN "early" ELSE "late")]_vars

\* C37: no sequence of events produces a triple: the result is always none, a strike, a
\* foul, a single, a double or a homerun, and every step that settles a single or a
\* double moves the runners and scores as advanceBases does with n = 1 or n = 2.
C37_NoTriple ==
    /\ [](result.kind \in {"none", "strike", "foul", "single", "double", "homerun"})
    /\ [][(result' # result /\ result'.kind \in {"single", "double", "triple"}) =>
              \E n \in {1, 2} :
                  /\ n = BasesOf(result'.kind)
                  /\ runners' = advanceBases(runners, n).next
                  /\ runs' = runs + 1 + advanceBases(runners, n).scored]_vars

\* C37 witness: a single and then a double: the runner of the single is on third, the
\* batter on second, and each hit scored its 1
C37_Witness ==
    /\ event = "doSwing"
    /\ result = Res("double", "-")
    /\ runners = [on1 |-> FALSE, on2 |-> TRUE, on3 |-> TRUE]
    /\ runs = 2
    /\ pitches = 2

\* C38: every started pitch terminates.  With frame callbacks delivered and the clock
\* advancing, a pitch in flight eventually is out of flight, and a frame loop that has
\* run a frame (elapsed > 0) eventually is no longer scheduled: it ends at t = 1, or
\* the start of another pitch cancels it (elapsed = 0 again).
C38_PitchTerminates ==
    /\ inPlay ~> ~inPlay
    /\ (rafQueue # {} /\ elapsed > 0) ~> (rafQueue = {} \/ elapsed = 0)

\* C38 witness: the second pitch, swung at too late, has run to the end of its flight:
\* it is out of flight and no frame callback is scheduled
C38_Witness ==
    /\ event = "step"
    /\ progress = One
    /\ ~inPlay
    /\ rafQueue = {} /\ rafRef = 0
    /\ swingAtRef = CONTACT_PROGRESS + 600
    /\ result = Res("strike", "late")
    /\ pitches = 2

\* C39: the bounded session ends.  With automatic pitching left on, no resetAll and
\* finitely many fouls, gameOver eventually becomes true.
C39_SessionEnds == <>gameOver

\* C39 witness: one pitch was fouled off (the limit is 6), and the sixth pitch, started
\* by the timer, has ended the game
C39_Witness ==
    /\ gameOver
    /\ autoPitch
    /\ event = "autoPitch"
    /\ pending = {}
    /\ pitches = 6
    /\ maxPitches = InitialMaxPitches + 1

====
